---- MODULE Spec2Model ----
(***************************************************************************)
(* Model of bitfield_gen/bfgen.c: a generator that sets one single-bit    *)
(* field of jvmtiCapabilities at a time, scans the 16 raw bytes of the     *)
(* structure and prints, per field, a constant 0x<offset><mask>.          *)
(*                                                                         *)
(* The layout of bit-fields is implementation-defined, so the build's ABI  *)
(* (bit order inside a storage unit, byte order of the unit, padding at    *)
(* the end of the structure) is chosen nondeterministically in Init and    *)
(* stays fixed for the run.  The automatic variable `cap` is declared      *)
(* without an initialiser, so its bytes start indeterminate.               *)
(***************************************************************************)
EXTENDS Integers, Sequences, FiniteSets

VARIABLES abi, cap, pc, flag, i, out, exitStatus, probed

vars == <<abi, cap, pc, flag, i, out, exitStatus, probed>>

(* ---------------------------- bounds ---------------------------------- *)

\* storage units of padding an ABI may add after the last member
MaxTailUnits == 2

\* number of distinct non-zero patterns the uninitialised `cap` may hold
MaxGarbage == 2

\* largest number of nonzero bytes in the images handed directly to dbg
MaxNonzero == 2

(* ------------------- the structure declaration ------------------------ *)

\* members of jvmtiCapabilities in declaration order; name "" is an
\* unnamed (padding) bit-field
Members ==
  << [name |-> "can_tag_objects", width |-> 1],
     [name |-> "can_generate_field_modification_events", width |-> 1],
     [name |-> "can_generate_field_access_events", width |-> 1],
     [name |-> "can_get_bytecodes", width |-> 1],
     [name |-> "can_get_synthetic_attribute", width |-> 1],
     [name |-> "can_get_owned_monitor_info", width |-> 1],
     [name |-> "can_get_current_contended_monitor", width |-> 1],
     [name |-> "can_get_monitor_info", width |-> 1],
     [name |-> "can_pop_frame", width |-> 1],
     [name |-> "can_redefine_classes", width |-> 1],
     [name |-> "can_signal_thread", width |-> 1],
     [name |-> "can_get_source_file_name", width |-> 1],
     [name |-> "can_get_line_numbers", width |-> 1],
     [name |-> "can_get_source_debug_extension", width |-> 1],
     [name |-> "can_access_local_variables", width |-> 1],
     [name |-> "can_maintain_original_method_order", width |-> 1],
     [name |-> "can_generate_single_step_events", width |-> 1],
     [name |-> "can_generate_exception_events", width |-> 1],
     [name |-> "can_generate_frame_pop_events", width |-> 1],
     [name |-> "can_generate_breakpoint_events", width |-> 1],
     [name |-> "can_suspend", width |-> 1],
     [name |-> "can_redefine_any_class", width |-> 1],
     [name |-> "can_get_current_thread_cpu_time", width |-> 1],
     [name |-> "can_get_thread_cpu_time", width |-> 1],
     [name |-> "can_generate_method_entry_events", width |-> 1],
     [name |-> "can_generate_method_exit_events", width |-> 1],
     [name |-> "can_generate_all_class_hook_events", width |-> 1],
     [name |-> "can_generate_compiled_method_load_events", width |-> 1],
     [name |-> "can_generate_monitor_events", width |-> 1],
     [name |-> "can_generate_vm_object_alloc_events", width |-> 1],
     [name |-> "can_generate_native_method_bind_events", width |-> 1],
     [name |-> "can_generate_garbage_collection_events", width |-> 1],
     [name |-> "can_generate_object_free_events", width |-> 1],
     [name |-> "can_force_early_return", width |-> 1],
     [name |-> "can_get_owned_monitor_stack_depth_info", width |-> 1],
     [name |-> "can_get_constant_pool", width |-> 1],
     [name |-> "can_set_native_method_prefix", width |-> 1],
     [name |-> "can_retransform_classes", width |-> 1],
     [name |-> "can_retransform_any_class", width |-> 1],
     [name |-> "can_generate_resource_exhaustion_heap_events", width |-> 1],
     [name |-> "can_generate_resource_exhaustion_threads_events", width |-> 1],
     [name |-> "can_generate_early_vmstart", width |-> 1],
     [name |-> "can_generate_early_class_hook_events", width |-> 1],
     [name |-> "can_generate_sampled_object_alloc_events", width |-> 1],
     [name |-> "can_support_virtual_threads", width |-> 1],
     [name |-> "", width |-> 3],
     [name |-> "", width |-> 16],
     [name |-> "", width |-> 16],
     [name |-> "", width |-> 16],
     [name |-> "", width |-> 16],
     [name |-> "", width |-> 16] >>

\* the 45 blocks of main, in program order: the prefix printed and the
\* field assigned
MainBlocks ==
  << [prefix |-> "pub const OFFSET_CAN_TAG_OBJECTS : usize = ",
      field |-> "can_tag_objects"],
     [prefix |-> "pub const OFFSET_CAN_GENERATE_FIELD_MODIFICATION_EVENTS : usize = ",
      field |-> "can_generate_field_modification_events"],
     [prefix |-> "pub const OFFSET_CAN_GENERATE_FIELD_ACCESS_EVENTS : usize = ",
      field |-> "can_generate_field_access_events"],
     [prefix |-> "pub const OFFSET_CAN_GET_BYTECODES : usize = ",
      field |-> "can_get_bytecodes"],
     [prefix |-> "pub const OFFSET_CAN_GET_SYNTHETIC_ATTRIBUTE : usize = ",
      field |-> "can_get_synthetic_attribute"],
     [prefix |-> "pub const OFFSET_CAN_GET_OWNED_MONITOR_INFO : usize = ",
      field |-> "can_get_owned_monitor_info"],
     [prefix |-> "pub const OFFSET_CAN_GET_CURRENT_CONTENDED_MONITOR : usize = ",
      field |-> "can_get_current_contended_monitor"],
     [prefix |-> "pub const OFFSET_CAN_GET_MONITOR_INFO : usize = ",
      field |-> "can_get_monitor_info"],
     [prefix |-> "pub const OFFSET_CAN_POP_FRAME : usize = ",
      field |-> "can_pop_frame"],
     [prefix |-> "pub const OFFSET_CAN_REDEFINE_CLASSES : usize = ",
      field |-> "can_redefine_classes"],
     [prefix |-> "pub const OFFSET_CAN_SIGNAL_THREAD : usize = ",
      field |-> "can_signal_thread"],
     [prefix |-> "pub const OFFSET_CAN_GET_SOURCE_FILE_NAME : usize = ",
      field |-> "can_get_source_file_name"],
     [prefix |-> "pub const OFFSET_CAN_GET_LINE_NUMBERS : usize = ",
      field |-> "can_get_line_numbers"],
     [prefix |-> "pub const OFFSET_CAN_GET_SOURCE_DEBUG_EXTENSION : usize = ",
      field |-> "can_get_source_debug_extension"],
     [prefix |-> "pub const OFFSET_CAN_ACCESS_LOCAL_VARIABLES : usize = ",
      field |-> "can_access_local_variables"],
     [prefix |-> "pub const OFFSET_CAN_MAINTAIN_ORIGINAL_METHOD_ORDER : usize = ",
      field |-> "can_maintain_original_method_order"],
     [prefix |-> "pub const OFFSET_CAN_GENERATE_SINGLE_STEP_EVENTS : usize = ",
      field |-> "can_generate_single_step_events"],
     [prefix |-> "pub const OFFSET_CAN_GENERATE_EXCEPTION_EVENTS : usize = ",
      field |-> "can_generate_exception_events"],
     [prefix |-> "pub const OFFSET_CAN_GENERATE_FRAME_POP_EVENTS : usize = ",
      field |-> "can_generate_frame_pop_events"],
     [prefix |-> "pub const OFFSET_CAN_GENERATE_BREAKPOINT_EVENTS : usize = ",
      field |-> "can_generate_breakpoint_events"],
     [prefix |-> "pub const OFFSET_CAN_SUSPEND : usize = ",
      field |-> "can_suspend"],
     [prefix |-> "pub const OFFSET_CAN_REDEFINE_ANY_CLASS : usize = ",
      field |-> "can_redefine_any_class"],
     [prefix |-> "pub const OFFSET_CAN_GET_CURRENT_THREAD_CPU_TIME : usize = ",
      field |-> "can_get_current_thread_cpu_time"],
     [prefix |-> "pub const OFFSET_CAN_GET_THREAD_CPU_TIME : usize = ",
      field |-> "can_get_thread_cpu_time"],
     [prefix |-> "pub const OFFSET_CAN_GENERATE_METHOD_ENTRY_EVENTS : usize = ",
      field |-> "can_generate_method_entry_events"],
     [prefix |-> "pub const OFFSET_CAN_GENERATE_METHOD_EXIT_EVENTS : usize = ",
      field |-> "can_generate_method_exit_events"],
     [prefix |-> "pub const OFFSET_CAN_GENERATE_ALL_CLASS_HOOK_EVENTS : usize = ",
      field |-> "can_generate_all_class_hook_events"],
     [prefix |-> "pub const OFFSET_CAN_GENERATE_COMPILED_METHOD_LOAD_EVENTS : usize = ",
      field |-> "can_generate_compiled_method_load_events"],
     [prefix |-> "pub const OFFSET_CAN_GENERATE_MONITOR_EVENTS : usize = ",
      field |-> "can_generate_monitor_events"],
     [prefix |-> "pub const OFFSET_CAN_GENERATE_VM_OBJECT_ALLOC_EVENTS : usize = ",
      field |-> "can_generate_vm_object_alloc_events"],
     [prefix |-> "pub const OFFSET_CAN_GENERATE_NATIVE_METHOD_BIND_EVENTS : usize = ",
      field |-> "can_generate_native_method_bind_events"],
     [prefix |-> "pub const OFFSET_CAN_GENERATE_GARBAGE_COLLECTION_EVENTS : usize = ",
      field |-> "can_generate_garbage_collection_events"],
     [prefix |-> "pub const OFFSET_CAN_GENERATE_OBJECT_FREE_EVENTS : usize = ",
      field |-> "can_generate_object_free_events"],
     [prefix |-> "pub const OFFSET_CAN_FORCE_EARLY_RETURN : usize = ",
      field |-> "can_force_early_return"],
     [prefix |-> "pub const OFFSET_CAN_GET_OWNED_MONITOR_STACK_DEPTH_INFO : usize = ",
      field |-> "can_get_owned_monitor_stack_depth_info"],
     [prefix |-> "pub const OFFSET_CAN_GET_CONSTANT_POOL : usize = ",
      field |-> "can_get_constant_pool"],
     [prefix |-> "pub const OFFSET_CAN_SET_NATIVE_METHOD_PREFIX : usize = ",
      field |-> "can_set_native_method_prefix"],
     [prefix |-> "pub const OFFSET_CAN_RETRANSFORM_CLASSES : usize = ",
      field |-> "can_retransform_classes"],
     [prefix |-> "pub const OFFSET_CAN_RETRANSFORM_ANY_CLASS : usize = ",
      field |-> "can_retransform_any_class"],
     [prefix |-> "pub const OFFSET_CAN_GENERATE_RESOURCE_EXHAUSTION_HEAP_EVENTS : usize = ",
      field |-> "can_generate_resource_exhaustion_heap_events"],
     [prefix |-> "pub const OFFSET_CAN_GENERATE_RESOURCE_EXHAUSTION_THREAD_EVENETS : usize = ",
      field |-> "can_generate_resource_exhaustion_threads_events"],
     [prefix |-> "pub const OFFSET_CAN_GENERATE_EARLY_VMSTART : usize = ",
      field |-> "can_generate_early_vmstart"],
     [prefix |-> "pub const OFFSET_CAN_GENERATE_EARLY_CLASS_HOOK_EVENTS : usize = ",
      field |-> "can_generate_early_class_hook_events"],
     [prefix |-> "pub const OFFSET_CAN_GENERATE_SAMPLED_OBJECT_ALLOC_EVENTS : usize = ",
      field |-> "can_generate_sampled_object_alloc_events"],
     [prefix |-> "pub const OFFSET_CAN_SUPPORT_VIRTUAL_THREADS : usize = ",
      field |-> "can_support_virtual_threads"] >>

(* --------------------------- constants -------------------------------- *)

\* widths in bits an `unsigned int`, the storage unit of every member,
\* may have
UnitWidths == {16, 32, 64}

\* bits of one uint8_t
ByteBits == 8

\* the size main expects: sizeof(jvmtiCapabilities) != 16
ExpectedSize == 16

\* the number of bytes dbg scans: i < 16
ScanBytes == 16

UnitBytes(u) == u \div ByteBits

Bytes == 0 .. (ScanBytes - 1)

BitOrders == {"lsb", "msb"}

ByteOrders == {"le", "be"}

RECURSIVE Pow2(_)
Pow2(e) == IF e = 0 THEN 1 ELSE 2 * Pow2(e - 1)

(* ------------------------ bit-field layout ---------------------------- *)

\* where a bit-field of width w starts when p bits are already allocated:
\* right after its predecessor when it fits into the same unit, otherwise
\* at the start of the next unit
FitStart(u, p, w) ==
  IF (p % u) + w > u
    THEN ((p \div u) + 1) * u
    ELSE p

\* bits allocated after members lo..hi were placed, in declaration order,
\* behind p allocated bits, in units of u bits: the second half is placed
\* behind the end q of the first half (q is bound once, through a set)
RECURSIVE AllocEnd(_, _, _, _)
AllocEnd(u, lo, hi, p) ==
  IF lo > hi THEN p
  ELSE IF lo = hi
    THEN FitStart(u, p, Members[lo].width) + Members[lo].width
  ELSE LET mid == (lo + hi) \div 2
       IN  CHOOSE r \in {AllocEnd(u, mid + 1, hi, q) :
                            q \in {AllocEnd(u, lo, mid, p)}} : TRUE

\* bit position, counted in declaration order, at which member k starts
BitStart(u, k) == FitStart(u, AllocEnd(u, 1, k - 1, 0), Members[k].width)

BitStartTable ==
  [u \in UnitWidths |-> [k \in 1 .. Len(Members) |-> BitStart(u, k)]]

LayoutBits(u) == AllocEnd(u, 1, Len(Members), 0)

LayoutUnits(u) == (LayoutBits(u) + u - 1) \div u

\* sizeof(jvmtiCapabilities) under ABI a
SizeOf(a) == (LayoutUnits(a.unit) + a.tail) * UnitBytes(a.unit)

\* the named single-bit fields, in declaration order
NamedFields == SelectSeq([k \in 1 .. Len(Members) |-> Members[k].name],
                         LAMBDA nm : nm # "")

MemberIndex(f) == CHOOSE k \in 1 .. Len(Members) : Members[k].name = f

\* where ABI a puts the single-bit field f: byte offset and mask in the byte
FieldPlace(a, f) ==
  LET u    == a.unit
      p    == BitStartTable[u][MemberIndex(f)]
      unit == p \div u
      b    == p % u
      bb   == IF a.bitOrder = "lsb" THEN b ELSE u - 1 - b
      byte == IF a.byteOrder = "le" THEN bb \div ByteBits
                                    ELSE UnitBytes(u) - 1 - (bb \div ByteBits)
  IN  [offset |-> unit * UnitBytes(u) + byte, mask |-> Pow2(bb % ByteBits)]

BitIsSet(byte, mask) == (byte \div mask) % 2 = 1

\* cap.f = 1 : read-modify-write of the one bit of f
StoreField(img, a, f) ==
  LET pl == FieldPlace(a, f)
  IN  IF pl.offset \in Bytes
        THEN [img EXCEPT ![pl.offset] =
                IF BitIsSet(@, pl.mask) THEN @ ELSE @ + pl.mask]
        ELSE img

ZeroImage == [j \in Bytes |-> 0]

\* the memset left out
MemsetNone(img, c, n) == img

\* memset with a too small length: the first 8 bytes only
MemsetShort(img, c, n) == [j \in Bytes |-> IF j < 8 THEN c ELSE img[j]]

\* memset((void*) &cap, c, n) on the bytes dbg will read
MemsetBytes(img, c, n) == [j \in Bytes |-> IF j < n THEN c ELSE img[j]]

\* contents `cap` may have before its first memset
Garbage == {[j \in Bytes |-> (85 * g + g * j) % 256] : g \in 0 .. MaxGarbage}

(* -------------------------- main's blocks ----------------------------- *)

\* a catalog that lost its last block
NumBlocksShort == Len(MainBlocks) - 1

NumBlocks == Len(MainBlocks)

\* a block whose assignment was copied from the block before it
FieldOfBlockCopied(k) == MainBlocks[IF k = 10 THEN 9 ELSE k].field

\* the field block k assigns
FieldOfBlock(k) == MainBlocks[k].field

\* blocks 2 and 3 written in the opposite order
BlockAtSwapped(k) == IF k = 2 THEN 3 ELSE IF k = 3 THEN 2 ELSE k

\* the block that runs k-th
BlockAt(k) == k

\* a size test that lets every size through
SizeMatchesAny(sz) == TRUE

\* !(sizeof(jvmtiCapabilities) != 16)
SizeMatches(sz) == sz = ExpectedSize

\* the status a parent process sees
ExitCode(v) == v % 256

\* return -1; at the end of main
MainReturnValueMinusOne == ExitCode(-1)

\* return 0; at the end of main
MainReturnValue == 0

(* ------------------------- printf formatting -------------------------- *)

\* standard output is the sequence of its lines, each a sequence of tokens;
\* the last element is the line still being written
NoOutput == << <<>> >>

\* printf of text without a newline
Write(o, toks) == [o EXCEPT ![Len(o)] = @ \o toks]

\* printf of text that ends with a newline
WriteLn(o, toks) == Append(Write(o, toks), <<>>)

HexDigits == <<"0", "1", "2", "3", "4", "5", "6", "7",
               "8", "9", "A", "B", "C", "D", "E", "F">>

\* %X : hexadecimal, upper case, as many digits as the value needs
RECURSIVE HexX(_)
HexX(v) == IF v < 16 THEN <<HexDigits[v + 1]>>
           ELSE Append(HexX(v \div 16), HexDigits[(v % 16) + 1])

\* %X instead of %02X : no zero padding
Hex02NoPad(v) == HexX(v)

\* %02X : at least two digits, padded with zeros
Hex02(v) == IF Len(HexX(v)) < 2 THEN <<"0">> \o HexX(v) ELSE HexX(v)

\* the two arguments passed in the opposite order
LiteralSwapped(idx, byte) == <<"0", "x">> \o Hex02(byte) \o Hex02(idx)

\* printf("0x%02X%02X", i, n[i])
Literal(idx, byte) == <<"0", "x">> \o Hex02(idx) \o Hex02(byte)

\* i++
NextIndex(idx) == idx + 1

LoopCond(idx) == idx < ScanBytes

(* ------------------------------ main ---------------------------------- *)

ABIs == [unit : UnitWidths, bitOrder : BitOrders, byteOrder : ByteOrders,
         tail : 0 .. MaxTailUnits]

Init ==
  /\ abi \in ABIs
  /\ cap \in Garbage
  /\ pc = "start"
  /\ flag = 1
  /\ i = 0
  /\ out = NoOutput
  /\ exitStatus = 0
  /\ probed = <<>>

\* if (sizeof(jvmtiCapabilities) != 16) exit(-1);
SizeAbort ==
  /\ pc = "start"
  /\ ~ SizeMatches(SizeOf(abi))
  /\ pc' = "exited"
  /\ exitStatus' = ExitCode(-1)
  /\ UNCHANGED <<abi, cap, flag, i, out, probed>>

SizeOk ==
  /\ pc = "start"
  /\ SizeMatches(SizeOf(abi))
  /\ pc' = "prefix"
  /\ UNCHANGED <<abi, cap, flag, i, out, exitStatus, probed>>

\* printf("pub const OFFSET_... : usize = ");
PrintPrefix ==
  /\ pc = "prefix"
  /\ out' = Write(out, <<MainBlocks[BlockAt(flag)].prefix>>)
  /\ pc' = "memset"
  /\ UNCHANGED <<abi, cap, flag, i, exitStatus, probed>>

\* memset((void*) &cap, 0, sizeof(jvmtiCapabilities));
Memset ==
  /\ pc = "memset"
  /\ cap' = MemsetBytes(cap, 0, SizeOf(abi))
  /\ pc' = "set"
  /\ UNCHANGED <<abi, flag, i, out, exitStatus, probed>>

\* cap.<field> = 1;
SetField ==
  /\ pc = "set"
  /\ cap' = StoreField(cap, abi, FieldOfBlock(BlockAt(flag)))
  /\ probed' = Append(probed, FieldOfBlock(BlockAt(flag)))
  /\ pc' = "call"
  /\ UNCHANGED <<abi, flag, i, out, exitStatus>>

\* dbg((void*) &cap); enters the loop with i = 0
CallDbg ==
  /\ pc = "call"
  /\ i' = 0
  /\ pc' = "scan"
  /\ UNCHANGED <<abi, cap, flag, out, exitStatus, probed>>

\* loop body, n[i] != 0
DbgPrintByte ==
  /\ pc = "scan"
  /\ LoopCond(i)
  /\ cap[i] # 0
  /\ out' = Write(out, Literal(i, cap[i]))
  /\ i' = NextIndex(i)
  /\ UNCHANGED <<abi, cap, pc, flag, exitStatus, probed>>

\* loop body, n[i] == 0
DbgSkipByte ==
  /\ pc = "scan"
  /\ LoopCond(i)
  /\ cap[i] = 0
  /\ i' = NextIndex(i)
  /\ UNCHANGED <<abi, cap, pc, flag, out, exitStatus, probed>>

\* printf(";\n"); and the return to the caller: the next block of main,
\* the return statement after the last block, or (flag = 0) a caller that
\* applied dbg to an image of its own
DbgEnd ==
  /\ pc = "scan"
  /\ ~ LoopCond(i)
  /\ out' = WriteLn(out, <<";">>)
  /\ IF flag = 0 THEN pc' = "returned" /\ flag' = flag
     ELSE IF flag < NumBlocks THEN pc' = "prefix" /\ flag' = flag + 1
     ELSE pc' = "return" /\ flag' = flag
  /\ UNCHANGED <<abi, cap, i, exitStatus, probed>>

\* return 0;
ReturnMain ==
  /\ pc = "return"
  /\ pc' = "exited"
  /\ exitStatus' = ExitCode(MainReturnValue)
  /\ UNCHANGED <<abi, cap, flag, i, out, probed>>

Next ==
  \/ SizeAbort
  \/ SizeOk
  \/ PrintPrefix
  \/ Memset
  \/ SetField
  \/ CallDbg
  \/ DbgPrintByte
  \/ DbgSkipByte
  \/ DbgEnd
  \/ ReturnMain

Spec == Init /\ [][Next]_vars

\* the program is the only process and runs without suspension points
FairSpec == Spec /\ WF_vars(Next)

(* --------------------- dbg applied to any image ----------------------- *)

ImageWith(S, v) == [j \in Bytes |-> IF j \in S THEN v ELSE 0]

\* every image with one nonzero byte, the all-zero image, and images with
\* up to MaxNonzero nonzero bytes of one or several bits
DbgInputs ==
  {ImageWith({o}, v) : o \in Bytes, v \in 1 .. 255}
    \cup {ImageWith(S, v) :
            S \in {T \in SUBSET Bytes : Cardinality(T) <= MaxNonzero},
            v \in {1, 3, 128}}

InitDbg ==
  /\ abi = [unit |-> 32, bitOrder |-> "lsb", byteOrder |-> "le", tail |-> 0]
  /\ cap \in DbgInputs
  /\ pc = "call"
  /\ flag = 0
  /\ i = 0
  /\ out = NoOutput
  /\ exitStatus = 0
  /\ probed = <<>>

NextDbg ==
  \/ CallDbg
  \/ DbgPrintByte
  \/ DbgSkipByte
  \/ DbgEnd

SpecDbg == InitDbg /\ [][NextDbg]_vars

(* ----------------------- reading the output --------------------------- *)

\* the complete lines of the output
Lines == SubSeq(out, 1, Len(out) - 1)

IsHexDigit(c) == \E d \in 1 .. 16 : HexDigits[d] = c

DigitValue(c) == (CHOOSE d \in 1 .. 16 : HexDigits[d] = c) - 1

RECURSIVE HexValue(_)
HexValue(ds) == IF ds = <<>> THEN 0
                ELSE 16 * HexValue(SubSeq(ds, 1, Len(ds) - 1))
                       + DigitValue(ds[Len(ds)])

\* the number a token sequence denotes as a literal 0x<digits>, or -1 when
\* it is not one literal
LiteralValue(toks) ==
  IF /\ Len(toks) >= 3
     /\ toks[1] = "0"
     /\ toks[2] = "x"
     /\ \A j \in 3 .. Len(toks) : IsHexDigit(toks[j])
    THEN HexValue(SubSeq(toks, 3, Len(toks)))
    ELSE -1

\* the tokens of a line between its first token and its final ";"
Body(line) == SubSeq(line, 2, Len(line) - 1)

\* the encoded integer of line k of main's output: what stands between
\* the prefix and the ";"
LineValue(k) ==
  IF Len(out[k]) >= 2 /\ out[k][Len(out[k])] = ";"
    THEN LiteralValue(Body(out[k]))
    ELSE -1

Encode(offset, mask) == offset * 256 + mask

NonzeroBytes(img) == {j \in Bytes : img[j] # 0}

SingleBitMasks == {Pow2(e) : e \in 0 .. (ByteBits - 1)}

\* the named fields whose bit is set in img
FieldsSet(img, a) ==
  {k \in 1 .. Len(NamedFields) :
     LET pl == FieldPlace(a, NamedFields[k])
     IN  pl.offset \in Bytes /\ BitIsSet(img[pl.offset], pl.mask)}

Succeeded == pc = "exited" /\ exitStatus = 0

(* ------------------------------ C1 ------------------------------------ *)

\* C1: when sizeof(jvmtiCapabilities) is not 16 the run goes from the size
\* test straight to exit with a nonzero status: nothing is printed and no
\* field is ever assigned
SizeFailClosed ==
  SizeOf(abi) # 16 =>
    /\ pc \in {"start", "exited"}
    /\ out = NoOutput
    /\ probed = <<>>
    /\ (pc = "exited" => exitStatus # 0)

SizeFailClosedWitness ==
  /\ SizeOf(abi) # 16
  /\ pc = "exited"
  /\ exitStatus = 255
  /\ out = NoOutput

(* ------------------------------ C2 ------------------------------------ *)

BadImage(img) ==
  \/ Cardinality(NonzeroBytes(img)) # 1
  \/ \E j \in NonzeroBytes(img) : img[j] \notin SingleBitMasks

EmitEncodes ==
  (pc = "returned" /\ Cardinality(NonzeroBytes(cap)) = 1) =>
     LET o == CHOOSE j \in Bytes : cap[j] # 0
     IN  /\ Len(Lines) = 1
         /\ out[2] = <<>>
         /\ Len(out[1]) >= 1
         /\ out[1][Len(out[1])] = ";"
         /\ LiteralValue(SubSeq(out[1], 1, Len(out[1]) - 1))
               = Encode(o, cap[o])

EmitEncodesWitness ==
  /\ pc = "returned"
  /\ cap = ImageWith({2}, 8)
  /\ out = << <<"0", "x", "0", "2", "0", "8", ";">>, <<>> >>

(* ------------------------------ C4 ------------------------------------ *)

\* C4: the fields assigned so far are the first named fields of the
\* structure in declaration order, line k carries the place of the k-th
\* named field, lines never outnumber probes, and a successful run has
\* probed and described every named field
InDeclaredOrder ==
  /\ Len(probed) <= Len(NamedFields)
  /\ \A k \in 1 .. Len(probed) : probed[k] = NamedFields[k]
  /\ Len(Lines) <= Len(probed)
  /\ Len(probed) <= Len(Lines) + 1
  /\ \A k \in 1 .. Len(Lines) :
       LET pl == FieldPlace(abi, NamedFields[k])
       IN  LineValue(k) = Encode(pl.offset, pl.mask)
  /\ Succeeded => (probed = NamedFields /\ Len(Lines) = Len(NamedFields))

InDeclaredOrderWitness ==
  /\ Succeeded
  /\ probed = NamedFields
  /\ Len(Lines) = Len(probed)

(* ------------------------------ C5 ------------------------------------ *)

\* C5: while an image is scanned exactly one of its bytes is nonzero and
\* that byte is a single bit; every line reports an offset in 0..15 and a
\* mask among 0x01 .. 0x80
SingleBit ==
  /\ pc = "scan" =>
       /\ Cardinality(NonzeroBytes(cap)) = 1
       /\ \A j \in NonzeroBytes(cap) : cap[j] \in SingleBitMasks
  /\ \A k \in 1 .. Len(Lines) :
       /\ LineValue(k) >= 0
       /\ (LineValue(k) \div 256) \in 0 .. 15
       /\ (LineValue(k) % 256) \in SingleBitMasks

SingleBitWitness ==
  /\ pc = "scan"
  /\ flag = 21
  /\ i = ScanBytes
  /\ Cardinality(NonzeroBytes(cap)) = 1

(* ------------------------------ C6 ------------------------------------ *)

\* the (offset, mask) pair line k reports
ReportedPair(k) == <<LineValue(k) \div 256, LineValue(k) % 256>>

\* C6: the lines of a run report as many different (offset, mask) pairs,
\* and carry as many different encoded values, as there are lines
Unique ==
  /\ Cardinality({ReportedPair(k) : k \in 1 .. Len(Lines)}) = Len(Lines)
  /\ Cardinality({LineValue(k) : k \in 1 .. Len(Lines)}) = Len(Lines)

UniqueWitness ==
  /\ Succeeded
  /\ Len(Lines) = Len(NamedFields)
  /\ ReportedPair(1) # ReportedPair(Len(Lines))

(* ------------------------------ C7 ------------------------------------ *)

DeclarationOrderPacking == abi.bitOrder = "lsb" /\ abi.byteOrder = "le"

\* C7: when the ABI packs bit-fields in declaration order from the lowest
\* bit of each byte, the line of catalog entry k (from 0) carries offset
\* k div 8 and mask 2^(k mod 8)
PackedInOrder ==
  DeclarationOrderPacking =>
    \A k \in 1 .. Len(Lines) :
      LineValue(k) = Encode((k - 1) \div 8, Pow2((k - 1) % 8))

PackedInOrderWitness ==
  /\ DeclarationOrderPacking
  /\ Len(Lines) >= 9
  /\ LineValue(1) = 1
  /\ LineValue(9) = 257

(* ------------------------------ C8 ------------------------------------ *)

\* C8: a block starts only when every earlier block's line is complete,
\* and a run whose structure size is 16 reaches exit with status 0 with
\* the last block's line written
StartsWithSize16 == pc = "start" /\ SizeOf(abi) = 16

BlockStartsClean ==
  pc = "prefix" => (Len(Lines) = flag - 1 /\ Len(probed) = flag - 1)

AllWritten == Succeeded /\ Len(Lines) = NumBlocks /\ out[Len(out)] = <<>>

Terminates == []BlockStartsClean /\ (StartsWithSize16 ~> AllWritten)

TerminatesWitness ==
  /\ SizeOf(abi) = 16
  /\ AllWritten
  /\ flag = NumBlocks

(* ------------------------------ C9 ------------------------------------ *)

\* the image exists: `cap` has been zeroed at least once (before its first
\* memset the variable holds indeterminate bytes that nothing reads)
ImageCreated ==
  \/ flag > 1
  \/ pc \in {"set", "call", "scan", "return"}
  \/ Succeeded

\* C9: at every point at most one flag field of the image is set; at a
\* scan exactly the probed field is set and the image is the all-zero
\* image with that one bit stored, so it depends neither on the bytes
\* `cap` started with nor on the fields earlier probes set
OneFlagAtATime ==
  /\ ImageCreated => Cardinality(FieldsSet(cap, abi)) <= 1
  /\ pc = "scan" =>
       /\ FieldsSet(cap, abi) = {k \in 1 .. Len(NamedFields) :
                                    NamedFields[k] = FieldOfBlock(flag)}
       /\ cap = StoreField(ZeroImage, abi, FieldOfBlock(flag))

OneFlagAtATimeWitness ==
  /\ pc = "scan"
  /\ flag = 3
  /\ cap = StoreField(ZeroImage, abi, NamedFields[3])
  /\ Len(probed) = 3

(* ------------------------------ C10 ----------------------------------- *)

\* C10 as stated: a successful run makes 44 probes and writes 44 lines
Count44 ==
  Succeeded => (Len(probed) = 44 /\ Len(Lines) = 44)

\* C10: a successful run makes 45 probes and writes 45 lines, one per
\* named single-bit field of the structure
Count45 ==
  Succeeded =>
    /\ Len(probed) = 45
    /\ Len(Lines) = 45
    /\ Len(NamedFields) = 45
    /\ \A k \in 1 .. Len(NamedFields) : \E j \in 1 .. Len(probed) :
         probed[j] = NamedFields[k]

Count45Witness ==
  /\ Succeeded
  /\ Len(probed) = 45
  /\ Len(Lines) = 45
====
